---- MODULE Spec2Model ----
(***************************************************************************)
(* MediAssist-AI: the RAG answer generator (rag/generation/generator.py).  *)
(*                                                                         *)
(* A text is a sequence of one-character strings, so that substring search *)
(* and line splitting are computed character by character.  A Python value *)
(* is a record tagged with its type; a dict is a record whose domain is    *)
(* the set of keys that are present.                                       *)
(***************************************************************************)
EXTENDS Integers, Sequences, FiniteSets, TLC

VARIABLES
    ctor,         \* the arguments each generator was constructed with
    llm,          \* self.llm of each generator: None or the ChatOpenAI client
    prompt,       \* self.prompt of each generator
    pc,           \* where each generate call stands
    self,         \* the generator each call runs on
    question,     \* argument question of each call
    documents,    \* argument documents of each call
    chainInput,   \* what the call handed to chain.invoke, if anything
    llmOutput,    \* result.content, once chain.invoke has returned
    ret,          \* what the call returned, if anything
    invocations,  \* number of chain.invoke calls the call has made
    driver,       \* graph router: the module global _driver
    cypherBody,   \* graph router: the body of the last /query request, if any
    cypherRun,    \* graph router: what that request handed to session.run
    cypherSessions, \* graph router: the sessions that request opened
    cypherResponse, \* graph router: the response to that request, if any
    imgAnalyzer,  \* image router: the module global _image_analyzer
    imgGradcam,   \* image router: the module global _gradcam
    imgDisk,      \* image router: the temporary files that exist on the disk
    imgPc,        \* image router: where the handler of the request stands
    imgRequest,   \* image router: the request being handled, if any
    imgCreated,   \* image router: the file NamedTemporaryFile created for it, if any
    imgTmpPath,   \* image router: the local tmp_path, once bound
    imgResult,    \* image router: result["findings"], once analyze has returned
    imgOutcome,   \* image router: what leaves the try statement: a value or an error
    imgUnlink,    \* image router: how the unlink of the finally clause went, if reached
    imgResponse,  \* image router: what the client receives, if anything yet
    users,        \* auth router: the rows of the users table, in order of insertion
    supabaseClient, \* auth router: the module global _supabase_client of each process
    authFrame     \* auth router: the handler each process runs, with its locals

vars == <<ctor, llm, prompt, pc, self, question, documents, chainInput, llmOutput, ret,
          invocations>>

graphVars == <<driver, cypherBody, cypherRun, cypherSessions, cypherResponse>>

\* the state of the routers, which the generator never touches
imageVars == <<imgAnalyzer, imgGradcam, imgDisk, imgPc, imgRequest, imgCreated, imgTmpPath,
               imgResult, imgOutcome, imgUnlink, imgResponse>>

authVars == <<users, supabaseClient, authFrame>>

routerVars == <<graphVars, imageVars, authVars>>

(***************************************************************************)
(* Bounds of the model.                                                    *)
(***************************************************************************)
MaxDocs == 2
MaxWords == 2
MaxRetries == 2
MaxQueryWords == 2
MaxUsers == 2

(***************************************************************************)
(* Python values.                                                          *)
(***************************************************************************)
None == [type |-> "NoneType"]
PyStr(s) == [type |-> "str", val |-> s]
PyInt(n) == [type |-> "int", val |-> n]
EmptyDict == [k \in {} |-> None]

\* bool(v): None, "" and 0 are false, an object is true
Truthy(v) ==
    CASE v.type = "NoneType" -> FALSE
      [] v.type = "str" -> v.val # <<>>
      [] v.type = "int" -> v.val # 0
      [] OTHER -> TRUE

\* d.get(k, default)
Get(d, k, default) == IF k \in DOMAIN d THEN d[k] ELSE default

Digit(n) == <<"0", "1", "2", "3", "4", "5", "6", "7", "8", "9">>[n + 1]

RECURSIVE IntToStr(_)
\* str(n) for n >= 0: the decimal digits
IntToStr(n) == IF n < 10 THEN <<Digit(n)>> ELSE IntToStr(n \div 10) \o <<Digit(n % 10)>>

\* the text an f-string puts for {v}
Format(v) ==
    CASE v.type = "NoneType" -> <<"N", "o", "n", "e">>
      [] v.type = "str" -> v.val
      [] v.type = "int" -> IntToStr(v.val)

\* sub in s
Contains(sub, s) ==
    \E k \in 0..(Len(s) - Len(sub)) : SubSeq(s, k + 1, k + Len(sub)) = sub

\* s.startswith(p)
StartsWith(s, p) == Len(s) >= Len(p) /\ SubSeq(s, 1, Len(p)) = p

RECURSIVE Join(_, _)
\* sep.join(parts)
Join(parts, sep) ==
    IF parts = <<>> THEN <<>>
    ELSE IF Len(parts) = 1 THEN parts[1]
    ELSE parts[1] \o sep \o Join(Tail(parts), sep)

RECURSIVE Lines(_)
\* s.split("\n")
Lines(s) ==
    IF \A k \in 1..Len(s) : s[k] # "\n" THEN <<s>>
    ELSE LET k == CHOOSE j \in 1..Len(s) :
                      s[j] = "\n" /\ \A h \in 1..(j - 1) : s[h] # "\n"
         IN <<SubSeq(s, 1, k - 1)>> \o Lines(SubSeq(s, k + 1, Len(s)))

\* f"[{i}]"
Marker(i) == <<"[">> \o IntToStr(i) \o <<"]">>

(***************************************************************************)
(* AnswerGenerator.                                                        *)
(***************************************************************************)
MEDICAL_PROMPT == "MEDICAL_PROMPT"

NotConfiguredAnswer ==
    <<"L", "L", "M", "U+C774", " ", "U+AD6C", "U+C131", "U+B418", "U+C9C0", " ",
      "U+C54A", "U+C558", "U+C2B5", "U+B2C8", "U+B2E4", ".">>

\* NewLlm without the test of api_key: the client is always built
NewLlmAlways(model, temperature, api_key) ==
    [type |-> "ChatOpenAI", model |-> model, temperature |-> temperature,
     openai_api_key |-> api_key]

\* __init__: the llm and prompt attributes of a new generator
NewLlm(model, temperature, api_key) ==
    IF Truthy(api_key)
    THEN [type |-> "ChatOpenAI", model |-> model, temperature |-> temperature,
          openai_api_key |-> api_key]
    ELSE None

NewPrompt ==
    [type |-> "PromptTemplate", template |-> MEDICAL_PROMPT,
     input_variables |-> <<"context", "question">>]

\* v is a dict: a dict has keys, the other values have a type tag
IsDict(v) == "type" \notin DOMAIN v

\* ContextPartRaises with subscripts in place of get: doc["metadata"]["title"]
\* and doc["content"] raise KeyError for a missing key
ContextPartRaisesSubscript(i, doc) ==
    \/ "metadata" \notin DOMAIN doc
    \/ ~IsDict(doc["metadata"])
    \/ "title" \notin DOMAIN doc["metadata"]
    \/ "content" \notin DOMAIN doc

\* whether formatting document i raises: doc.get("metadata", {}) and
\* doc.get("content", "") never do, .get("title", "Unknown") does (AttributeError)
\* when the metadata is not a dict
ContextPartRaises(i, doc) == ~IsDict(Get(doc, "metadata", EmptyDict))

\* whether _format_context raises
FormatContextRaises(docs) == \E i \in 1..Len(docs) : ContextPartRaises(i, docs[i])

\* ContextPart numbering from 0: enumerate(documents) without the start
ContextPartFromZero(i, doc) ==
    LET title == Get(Get(doc, "metadata", EmptyDict), "title",
                     PyStr(<<"U", "n", "k", "n", "o", "w", "n">>))
        content == Get(doc, "content", PyStr(<<>>))
    IN Marker(i - 1) \o <<" ">> \o Format(title) \o <<"\n">> \o Format(content)

\* one part of the context: f"[{i}] {title}\n{content}"
ContextPart(i, doc) ==
    LET title == Get(Get(doc, "metadata", EmptyDict), "title",
                     PyStr(<<"U", "n", "k", "n", "o", "w", "n">>))
        content == Get(doc, "content", PyStr(<<>>))
    IN Marker(i) \o <<" ">> \o Format(title) \o <<"\n">> \o Format(content)

\* FormatContext with a notice in place of an empty context
FormatContextNotice(docs) ==
    IF docs = <<>> THEN <<"(", "n", "o", "n", "e", ")">>
    ELSE Join([i \in 1..Len(docs) |-> ContextPart(i, docs[i])], <<"\n", "\n">>)

\* _format_context
FormatContext(docs) ==
    Join([i \in 1..Len(docs) |-> ContextPart(i, docs[i])], <<"\n", "\n">>)

\* Citation reading title, authors and year from the document, not its metadata
CitationTopLevel(i, doc) ==
    [index |-> i,
     title |-> Get(doc, "title", None),
     authors |-> Get(doc, "authors", None),
     year |-> Get(doc, "year", None)]

\* the dict _extract_citations appends for document i
Citation(i, doc) ==
    LET metadata == Get(doc, "metadata", EmptyDict)
    IN [index |-> i,
        title |-> Get(metadata, "title", None),
        authors |-> Get(metadata, "authors", None),
        year |-> Get(metadata, "year", None)]

\* IsCited without the brackets: str(i) in answer
IsCitedDigits(i, answer) == Contains(IntToStr(i), answer)

\* the test of _extract_citations: f"[{i}]" in answer
IsCited(i, answer) == Contains(Marker(i), answer)

RECURSIVE ExtractLoop(_, _, _, _)
\* the loop of _extract_citations from document i on
ExtractLoop(answer, docs, i, citations) ==
    IF i > Len(docs) THEN citations
    ELSE ExtractLoop(answer, docs, i + 1,
                     IF IsCited(i, answer)
                     THEN Append(citations, Citation(i, docs[i]))
                     ELSE citations)

RECURSIVE ScanMarkers(_, _, _, _)
\* citations in the order their markers first appear in the answer, from position p
ScanMarkers(answer, docs, p, citations) ==
    IF p > Len(answer) THEN citations
    ELSE LET here == { i \in 1..Len(docs) :
                          /\ StartsWith(SubSeq(answer, p, Len(answer)), Marker(i))
                          /\ \A k \in 1..Len(citations) : citations[k].index # i }
         IN ScanMarkers(answer, docs, p + 1,
                        IF here = {} THEN citations
                        ELSE LET i == CHOOSE j \in here : TRUE
                             IN Append(citations, Citation(i, docs[i])))

\* ExtractCitations by scanning the answer: order of first appearance
ExtractByAppearance(answer, docs) == ScanMarkers(answer, docs, 1, <<>>)

\* _extract_citations
ExtractCitations(answer, docs) == ExtractLoop(answer, docs, 1, <<>>)

(***************************************************************************)
(* Inputs.                                                                 *)
(***************************************************************************)
Gens == {"g1", "g2"}
Calls == {"c1", "c2"}
\* the sequential host has one generator and one call at a time
SeqGens == {"g1"}
SeqCalls == {"c1"}

\* arguments of the constructor: (model, temperature, api_key)
CtorArgs ==
    { [model |-> "gpt-4", temperature |-> "0.3", api_key |-> None],
      [model |-> "gpt-4", temperature |-> "0.3", api_key |-> PyStr(<<>>)],
      [model |-> "gpt-4", temperature |-> "0.3", api_key |-> PyStr(<<"s", "k">>)],
      [model |-> "gpt-3.5-turbo", temperature |-> "0.0", api_key |-> PyStr(<<"s", "k">>)] }

\* self of a call that has no frame
NoGen == "none"

Questions == { PyStr(<<"q">>), PyStr(<<"[", "1", "]", "?">>) }

DocA ==
    [content |-> PyStr(<<"x">>),
     metadata |-> [title |-> PyStr(<<"A">>), authors |-> PyStr(<<"K", "i", "m">>),
                   year |-> PyInt(2020)]]
DocB ==
    [content |-> PyStr(<<"[", "2", "]", "y", "\n", "[", "1", "]", "z">>),
     metadata |-> [title |-> PyStr(<<"B">>), authors |-> PyStr(<<"L", "e", "e">>),
                   year |-> PyInt(2021)]]
DocNoAuthors == [content |-> PyStr(<<"w">>), metadata |-> [title |-> PyStr(<<"C">>)]]
DocBare == EmptyDict

Docs == {DocA, DocB, DocNoAuthors, DocBare}

SeqsUpTo(S, n) == UNION { [1..k -> S] : k \in 0..n }

DocLists == SeqsUpTo(Docs, MaxDocs)

\* pieces of model output
Words ==
    { <<"[", "1", "]">>, <<"[", "2", "]">>, <<"[", "3", "]">>,
      <<"[", "1", "0", "]">>, <<"[", "0", "]">>, <<"m", "g">>, <<" ">> }

RECURSIVE Flatten(_)
Flatten(ws) == IF ws = <<>> THEN <<>> ELSE ws[1] \o Flatten(Tail(ws))

\* the texts the language model may return
Answers == { Flatten(ws) : ws \in SeqsUpTo(Words, MaxWords) }

\* inputs of the concurrent host
ConcDocLists == { <<>>, <<DocA>>, <<DocB, DocA>> }
ConcAnswers == { <<>>, <<"[", "1", "]">>, <<"[", "2", "]", " ", "[", "1", "]">>,
                 <<"[", "1", "0", "]">> }

(***************************************************************************)
(* State.                                                                  *)
(***************************************************************************)
\* the state once the generators G are constructed, before any call of C
InitOf(G, C) ==
    /\ ctor \in [G -> CtorArgs]
    /\ llm = [g \in G |-> NewLlm(ctor[g].model, ctor[g].temperature, ctor[g].api_key)]
    /\ prompt = [g \in G |-> NewPrompt]
    /\ pc = [c \in C |-> "idle"]
    /\ self = [c \in C |-> NoGen]
    /\ question = [c \in C |-> None]
    /\ documents = [c \in C |-> <<>>]
    /\ chainInput = [c \in C |-> <<>>]
    /\ llmOutput = [c \in C |-> <<>>]
    /\ ret = [c \in C |-> <<>>]
    /\ invocations = [c \in C |-> 0]

\* generate, lines 59-63: no llm, the placeholder is returned at once
GenerateDisabled(c, g, q, docs) ==
    /\ pc[c] = "idle"
    /\ ~Truthy(llm[g])
    /\ pc' = [pc EXCEPT ![c] = "returned"]
    /\ self' = [self EXCEPT ![c] = g]
    /\ question' = [question EXCEPT ![c] = q]
    /\ documents' = [documents EXCEPT ![c] = docs]
    /\ ret' = [ret EXCEPT ![c] = <<[answer |-> NotConfiguredAnswer, sources |-> <<>>]>>]
    /\ UNCHANGED <<ctor, llm, prompt, chainInput, llmOutput, invocations>>

\* generate, line 66: _format_context raises, the exception leaves generate
GenerateFormatRaises(c, g, q, docs) ==
    /\ pc[c] = "idle"
    /\ Truthy(llm[g])
    /\ FormatContextRaises(docs)
    /\ pc' = [pc EXCEPT ![c] = "raised"]
    /\ self' = [self EXCEPT ![c] = g]
    /\ question' = [question EXCEPT ![c] = q]
    /\ documents' = [documents EXCEPT ![c] = docs]
    /\ UNCHANGED <<ctor, llm, prompt, chainInput, llmOutput, ret, invocations>>

\* generate, lines 65-73: the context is formatted and chain.invoke is entered
GenerateInvoke(c, g, q, docs) ==
    /\ pc[c] = "idle"
    /\ Truthy(llm[g])
    /\ ~FormatContextRaises(docs)
    /\ pc' = [pc EXCEPT ![c] = "invoking"]
    /\ self' = [self EXCEPT ![c] = g]
    /\ question' = [question EXCEPT ![c] = q]
    /\ documents' = [documents EXCEPT ![c] = docs]
    /\ chainInput' = [chainInput EXCEPT ![c] =
                         <<[context |-> FormatContext(docs), question |-> q,
                            prompt |-> prompt[g], llm |-> llm[g]]>>]
    /\ invocations' = [invocations EXCEPT ![c] = invocations[c] + 1]
    /\ UNCHANGED <<ctor, llm, prompt, llmOutput, ret>>

RECURSIVE Strip(_)
\* s.strip() for blanks and line breaks
Strip(s) ==
    IF s = <<>> THEN s
    ELSE IF Head(s) \in {" ", "\n"} THEN Strip(Tail(s))
    ELSE IF s[Len(s)] \in {" ", "\n"} THEN Strip(SubSeq(s, 1, Len(s) - 1))
    ELSE s

\* Result with the model output stripped before it is used
ResultStripped(content, docs) ==
    [answer |-> Strip(content), sources |-> ExtractCitations(Strip(content), docs)]

\* Result with a citations list that outlives the call: the sources of a call
\* that has returned and not ended yet come first
ResultKeepsCitations(content, docs) ==
    LET earlier == { d \in DOMAIN pc : pc[d] = "returned" /\ llmOutput[d] # <<>> }
        kept == IF earlier = {} THEN <<>>
                ELSE ret[CHOOSE d \in earlier : TRUE][1].sources
    IN [answer |-> content, sources |-> kept \o ExtractCitations(content, docs)]

\* the dict generate returns for the model output content, lines 76-81
Result(content, docs) ==
    [answer |-> content, sources |-> ExtractCitations(content, docs)]

\* InvokeReturns with the documents kept on the generator: the extraction reads
\* the documents of the latest call that entered the generator
InvokeReturnsSharedDocuments(c, content) ==
    LET others == { d \in DOMAIN pc : d # c /\ self[d] = self[c] /\ pc[d] = "invoking" }
        docs == IF others = {} THEN documents[c]
                ELSE documents[CHOOSE d \in others : TRUE]
    IN /\ pc[c] = "invoking"
       /\ pc' = [pc EXCEPT ![c] = "returned"]
       /\ llmOutput' = [llmOutput EXCEPT ![c] = <<content>>]
       /\ ret' = [ret EXCEPT ![c] = <<Result(content, docs)>>]
       /\ UNCHANGED <<ctor, llm, prompt, self, question, documents, chainInput,
                      invocations>>

\* chain.invoke returns result.content = content; generate, lines 75-81
InvokeReturns(c, content) ==
    /\ pc[c] = "invoking"
    /\ pc' = [pc EXCEPT ![c] = "returned"]
    /\ llmOutput' = [llmOutput EXCEPT ![c] = <<content>>]
    /\ ret' = [ret EXCEPT ![c] = <<Result(content, documents[c])>>]
    /\ UNCHANGED <<ctor, llm, prompt, self, question, documents, chainInput, invocations>>

\* InvokeRaises with a retry: the failure is caught and chain.invoke entered again
InvokeRaisesRetry(c) ==
    /\ pc[c] = "invoking"
    /\ invocations[c] < MaxRetries
    /\ invocations' = [invocations EXCEPT ![c] = invocations[c] + 1]
    /\ UNCHANGED <<ctor, llm, prompt, pc, self, question, documents, chainInput,
                   llmOutput, ret>>

\* chain.invoke raises; generate has no handler, the exception leaves generate
InvokeRaises(c) ==
    /\ pc[c] = "invoking"
    /\ pc' = [pc EXCEPT ![c] = "raised"]
    /\ UNCHANGED <<ctor, llm, prompt, self, question, documents, chainInput, llmOutput,
                   ret, invocations>>

\* the caller has taken the result or the exception: the call's frame is gone
CallEnds(c) ==
    /\ pc[c] \in {"returned", "raised"}
    /\ pc' = [pc EXCEPT ![c] = "idle"]
    /\ self' = [self EXCEPT ![c] = NoGen]
    /\ question' = [question EXCEPT ![c] = None]
    /\ documents' = [documents EXCEPT ![c] = <<>>]
    /\ chainInput' = [chainInput EXCEPT ![c] = <<>>]
    /\ llmOutput' = [llmOutput EXCEPT ![c] = <<>>]
    /\ ret' = [ret EXCEPT ![c] = <<>>]
    /\ invocations' = [invocations EXCEPT ![c] = 0]
    /\ UNCHANGED <<ctor, llm, prompt>>

(***************************************************************************)
(* The routers before any request: the module globals are None.            *)
(***************************************************************************)
\* graph.py, line 12: _driver = None
GraphIdle ==
    /\ driver = None
    /\ cypherBody = <<>>
    /\ cypherRun = <<>>
    /\ cypherSessions = 0
    /\ cypherResponse = <<>>

\* image.py, lines 28-29: _image_analyzer = None, _gradcam = None; no temporary file
ImageIdle ==
    /\ imgAnalyzer = None
    /\ imgGradcam = None
    /\ imgDisk = {}
    /\ imgPc = "idle"
    /\ imgRequest = <<>>
    /\ imgCreated = <<>>
    /\ imgTmpPath = <<>>
    /\ imgResult = <<>>
    /\ imgOutcome = <<>>
    /\ imgUnlink = "not reached"
    /\ imgResponse = <<>>

\* the processes that serve the auth router
Workers == {"w1", "w2"}

\* a process that handles no auth request
IdleFrame ==
    [pc |-> "idle", request |-> <<>>, supabase |-> <<>>, existing |-> <<>>, inserted |-> 0,
     response |-> <<>>]

\* auth.py, line 22: _supabase_client = None; nobody has registered
AuthIdle ==
    /\ users = <<>>
    /\ supabaseClient = [w \in Workers |-> None]
    /\ authFrame = [w \in Workers |-> IdleFrame]

RoutersIdle == GraphIdle /\ ImageIdle /\ AuthIdle

(***************************************************************************)
(* A host that runs one generate call at a time.                           *)
(***************************************************************************)
Init == InitOf(SeqGens, SeqCalls) /\ RoutersIdle

SeqDisabled ==
    /\ UNCHANGED routerVars
    /\ \E c \in SeqCalls, g \in SeqGens, q \in Questions, docs \in DocLists :
           GenerateDisabled(c, g, q, docs)
SeqInvoke ==
    /\ UNCHANGED routerVars
    /\ \E c \in SeqCalls, g \in SeqGens, q \in Questions, docs \in DocLists :
           GenerateInvoke(c, g, q, docs)
SeqReturns ==
    /\ UNCHANGED routerVars
    /\ \E c \in SeqCalls, content \in Answers : InvokeReturns(c, content)
SeqRaises ==
    /\ UNCHANGED routerVars
    /\ \E c \in SeqCalls : InvokeRaises(c)
SeqEnds ==
    /\ UNCHANGED routerVars
    /\ \E c \in SeqCalls : CallEnds(c)

Next == SeqDisabled \/ SeqInvoke \/ SeqReturns \/ SeqRaises \/ SeqEnds

Spec == Init /\ [][Next]_vars

(***************************************************************************)
(* A host that runs generate calls concurrently (one per request).         *)
(***************************************************************************)
InitConc == InitOf(Gens, Calls) /\ RoutersIdle

ConcDisabled ==
    /\ UNCHANGED routerVars
    /\ \E c \in Calls, g \in Gens, q \in Questions, docs \in ConcDocLists :
           GenerateDisabled(c, g, q, docs)
ConcInvoke ==
    /\ UNCHANGED routerVars
    /\ \E c \in Calls, g \in Gens, q \in Questions, docs \in ConcDocLists :
           GenerateInvoke(c, g, q, docs)
ConcReturns ==
    /\ UNCHANGED routerVars
    /\ \E c \in Calls, content \in ConcAnswers : InvokeReturns(c, content)
ConcRaises ==
    /\ UNCHANGED routerVars
    /\ \E c \in Calls : InvokeRaises(c)
ConcEnds ==
    /\ UNCHANGED routerVars
    /\ \E c \in Calls : CallEnds(c)

NextConc == ConcDisabled \/ ConcInvoke \/ ConcReturns \/ ConcRaises \/ ConcEnds

SpecConc == InitConc /\ [][NextConc]_vars

(***************************************************************************)
(* A host whose retrieval hands over malformed documents.                  *)
(***************************************************************************)
DocNoContent ==
    [metadata |-> [title |-> PyStr(<<"T">>), authors |-> PyStr(<<"P", "a", "k">>),
                   year |-> PyInt(2019)]]
DocNoMetadata == [content |-> PyStr(<<"v">>)]
DocNoTitle == [content |-> PyStr(<<"u">>), metadata |-> [authors |-> PyStr(<<"L", "e", "e">>)]]
DocNoneMetadata == [content |-> PyStr(<<"n">>), metadata |-> None]

MalformedDocs == {DocA, DocNoContent, DocNoMetadata, DocNoTitle, DocBare, DocNoneMetadata}
MalformedDocLists == SeqsUpTo(MalformedDocs, MaxDocs)

InitDocs == InitOf(SeqGens, SeqCalls) /\ RoutersIdle

DocsDisabled ==
    /\ UNCHANGED routerVars
    /\ \E c \in SeqCalls, g \in SeqGens, q \in Questions, docs \in MalformedDocLists :
           GenerateDisabled(c, g, q, docs)
DocsFormatRaises ==
    /\ UNCHANGED routerVars
    /\ \E c \in SeqCalls, g \in SeqGens, q \in Questions, docs \in MalformedDocLists :
           GenerateFormatRaises(c, g, q, docs)
DocsInvoke ==
    /\ UNCHANGED routerVars
    /\ \E c \in SeqCalls, g \in SeqGens, q \in Questions, docs \in MalformedDocLists :
           GenerateInvoke(c, g, q, docs)
DocsReturns ==
    /\ UNCHANGED routerVars
    /\ \E c \in SeqCalls, content \in ConcAnswers : InvokeReturns(c, content)
DocsRaises ==
    /\ UNCHANGED routerVars
    /\ \E c \in SeqCalls : InvokeRaises(c)
DocsEnds ==
    /\ UNCHANGED routerVars
    /\ \E c \in SeqCalls : CallEnds(c)

NextDocs ==
    DocsDisabled \/ DocsFormatRaises \/ DocsInvoke \/ DocsReturns \/ DocsRaises \/ DocsEnds

SpecDocs == InitDocs /\ [][NextDocs]_vars

(***************************************************************************)
(* The knowledge-graph router (services/analysis/app/routers/graph.py).    *)
(***************************************************************************)
LowerCase == 
    <<"a", "b", "c", "d", "e", "f", "g", "h", "i", "j", "k", "l", "m">> \o
    <<"n", "o", "p", "q", "r", "s", "t", "u", "v", "w", "x", "y", "z">>
UpperCase == 
    <<"A", "B", "C", "D", "E", "F", "G", "H", "I", "J", "K", "L", "M">> \o
    <<"N", "O", "P", "Q", "R", "S", "T", "U", "V", "W", "X", "Y", "Z">>

\* str.upper() of one ASCII character
UpperChar(ch) ==
    IF \E k \in 1..Len(LowerCase) : LowerCase[k] = ch
    THEN UpperCase[CHOOSE k \in 1..Len(LowerCase) : LowerCase[k] = ch]
    ELSE ch

\* str.upper()
Upper(s) == [k \in 1..Len(s) |-> UpperChar(s[k])]

\* the words execute_cypher looks for
WriteWords ==
    { <<"C", "R", "E", "A", "T", "E">>, <<"D", "E", "L", "E", "T", "E">>, <<"S", "E", "T">>,
      <<"R", "E", "M", "O", "V", "E">>, <<"M", "E", "R", "G", "E">>, <<"D", "R", "O", "P">> }

\* IsWrite without upper(): the words are looked for in the query as written
IsWriteCaseSensitive(query) == \E word \in WriteWords : Contains(word, query)

\* the test of execute_cypher: any(word in query_upper for word in [...])
IsWrite(query) == \E word \in WriteWords : Contains(word, Upper(query))

\* records[:100]
ResultLimit == 100

\* pieces of Cypher text
QueryWords ==
    { <<"M", "A", "T", "C", "H", " ", "(", "n", ")", " ">>, <<"R", "E", "T", "U", "R", "N", " ", "n">>, <<" ", "S", "K", "I", "P", " ", "1">>,
      <<" ", "O", "F", "F", "S", "E", "T", " ", "1">>, <<"c", "r", "e", "a", "t", "e", " ", "(", "n", ")">>, <<" ", "S", "e", "t", " ", "n", ".", "x", "=", "1">>,
      <<"s", "e">>, <<"t">>, <<"M", "E", "R", "G", "E", " ", "(", "n", ")">> }

\* the queries a client may post
Queries == { Flatten(ws) : ws \in SeqsUpTo(QueryWords, MaxQueryWords) } \ { <<>> }

\* the numbers of records a query may yield
RecordCounts == {0, 3, 250}

\* HTTPException(status_code, detail); a character outside ASCII is written U+XXXX
HttpError(status, detail) == [status |-> status, detail |-> detail]

\* execute_cypher, lines 236-238: get_driver cannot connect (lines 27-30), 503
CypherNoDriver(body) ==
    /\ cypherResponse = <<>>
    /\ driver' = None
    /\ cypherBody' = <<body>>
    /\ cypherRun' = <<>>
    /\ cypherSessions' = 0
    /\ cypherResponse' = <<HttpError(503, "Neo4j U+C5F0U+ACB0 U+C2E4U+D328")>>

\* execute_cypher, lines 240-243: a driver, a write word in the query, 400
CypherRejected(body) ==
    /\ cypherResponse = <<>>
    /\ IsWrite(body.query)
    /\ driver' = [type |-> "Driver"]
    /\ cypherBody' = <<body>>
    /\ cypherRun' = <<>>
    /\ cypherSessions' = 0
    /\ cypherResponse' = <<HttpError(400, "U+C77DU+AE30 U+C804U+C6A9 U+CFFCU+B9ACU+B9CC U+D5C8U+C6A9U+B429U+B2C8U+B2E4")>>

\* execute_cypher, lines 245-254: the query is run, n records come back
CypherExecuted(body, n) ==
    /\ cypherResponse = <<>>
    /\ ~IsWrite(body.query)
    /\ driver' = [type |-> "Driver"]
    /\ cypherBody' = <<body>>
    /\ cypherRun' = <<[query |-> body.query, parameters |-> body.parameters]>>
    /\ cypherSessions' = 1
    /\ cypherResponse' =
           <<[status |-> 200, success |-> TRUE,
              data |-> IF n > ResultLimit THEN ResultLimit ELSE n, count |-> n]>>

\* execute_cypher, lines 245-256: driver.session() raises (ran = FALSE) or
\* session.run raises (ran = TRUE); the handler answers 500
CypherFailed(body, ran) ==
    /\ cypherResponse = <<>>
    /\ ~IsWrite(body.query)
    /\ driver' = [type |-> "Driver"]
    /\ cypherBody' = <<body>>
    /\ cypherRun' = IF ran THEN <<[query |-> body.query, parameters |-> body.parameters]>>
                    ELSE <<>>
    /\ cypherSessions' = IF ran THEN 1 ELSE 0
    /\ cypherResponse' = <<HttpError(500, "U+CFFCU+B9AC U+C624U+B958: {str(e)}")>>

\* the response has gone to the client: the request's frame is gone, _driver stays
CypherDelivered ==
    /\ cypherResponse # <<>>
    /\ cypherBody' = <<>>
    /\ cypherRun' = <<>>
    /\ cypherSessions' = 0
    /\ cypherResponse' = <<>>
    /\ UNCHANGED driver

\* the state of the generator in a process that constructs none
GeneratorIdle == InitOf({}, {})

InitGraph == GeneratorIdle /\ RoutersIdle

\* the bodies a client may post: CypherQuery(query, parameters = {})
CypherBodies == { [query |-> q, parameters |-> EmptyDict] : q \in Queries }

GraphNoDriver == \E body \in CypherBodies : CypherNoDriver(body) /\ UNCHANGED <<vars, imageVars, authVars>>
GraphRejected == \E body \in CypherBodies : CypherRejected(body) /\ UNCHANGED <<vars, imageVars, authVars>>
GraphExecuted ==
    \E body \in CypherBodies, n \in RecordCounts : CypherExecuted(body, n) /\ UNCHANGED <<vars, imageVars, authVars>>
GraphFailed ==
    \E body \in CypherBodies, ran \in BOOLEAN : CypherFailed(body, ran) /\ UNCHANGED <<vars, imageVars, authVars>>
GraphDelivered == CypherDelivered /\ UNCHANGED <<vars, imageVars, authVars>>

NextGraph ==
    GraphNoDriver \/ GraphRejected \/ GraphExecuted \/ GraphFailed \/ GraphDelivered

SpecGraph == InitGraph /\ [][NextGraph]_<<vars, routerVars>>

(***************************************************************************)
(* The image router (services/analysis/app/routers/image.py).  One request *)
(* is followed step by step through analyze_image or                       *)
(* generate_gradcam_visualization; the disk and the two module globals     *)
(* outlive it.                                                             *)
(***************************************************************************)
MaxTempFiles == 2

\* the names NamedTemporaryFile may give a file
TempNames == 1..MaxTempFiles

Endpoints == {"analyze", "gradcam"}

ImagePrefix == <<"i", "m", "a", "g", "e", "/">>

\* file.content_type of an upload
ContentTypes ==
    { None, PyStr(<<>>), PyStr(ImagePrefix \o <<"p", "n", "g">>),
      PyStr(<<"t", "e", "x", "t", "/", "i", "m", "a", "g", "e", "/">>) }

\* the test of lines 68 and 124, negated: the upload is taken for an image
IsImage(contentType) == Truthy(contentType) /\ StartsWith(contentType.val, ImagePrefix)

\* ChestXrayAnalyzer.CONDITIONS, as the docstring of analyze_image lists them
Conditions ==
    << <<"U+C815", "U+C0C1">>, <<"U+D3D0", "U+B834">>, <<"U+ACB0", "U+D575">>,
       <<"U+D3D0", "U+C554", " ", "U+C758", "U+C2EC">>, <<"U+C2EC", "U+BE44", "U+B300">>,
       <<"U+AE30", "U+D749">>, <<"U+D3D0", "U+BD80", "U+C885">> >>

\* the query parameter target_condition: absent, empty, a condition, or not one
TargetConditions == { None, PyStr(<<>>), PyStr(Conditions[1]), PyStr(<<"c", "o", "u", "g", "h">>) }

\* result["findings"] of an analysis: the conditions found, the likeliest first
FindingLists == { <<>>, <<Conditions[2]>>, <<Conditions[2], Conditions[1]>> }

\* an exception that is not an HTTPException; message is str(e)
Exception(message) == [type |-> "Exception", message |-> message]

IsHttpError(x) == DOMAIN x = {"status", "detail"}

\* the except clauses: analyze_image turns every Exception into a 500 (lines
\* 101-102); the Grad-CAM handler lets an HTTPException through (lines 192-195)
ImageCaught(endpoint, x) ==
    IF endpoint = "gradcam" /\ IsHttpError(x) THEN x
    ELSE HttpError(500, <<IF endpoint = "analyze" THEN "Analysis failed: "
                          ELSE "Grad-CAM generation failed: ",
                          IF IsHttpError(x) THEN x.detail ELSE x.message>>)

\* the statement in the try raises x: the except clause, then on to finally
ImageRaise(x) ==
    /\ imgOutcome' = <<ImageCaught(imgRequest[1].endpoint, x)>>
    /\ imgPc' = "finally"

\* lines 68-69, 124-125: the content type is tested before the try statement
ImageRequest(endpoint, contentType, target, generate_gradcam) ==
    /\ imgPc = "idle"
    /\ imgRequest' = <<[endpoint |-> endpoint, content_type |-> contentType,
                        target_condition |-> target,
                        generate_gradcam |-> generate_gradcam]>>
    /\ IF IsImage(contentType)
       THEN imgPc' = "read" /\ UNCHANGED imgResponse
       ELSE /\ imgPc' = "done"
            /\ imgResponse' = <<HttpError(400, "File must be an image")>>
    /\ UNCHANGED <<imgUnlink, imgAnalyzer, imgGradcam, imgDisk, imgCreated, imgTmpPath, imgResult,
                   imgOutcome>>

\* lines 73, 128: contents = await file.read()
ImageRead(ok) ==
    /\ imgPc = "read"
    /\ IF ok THEN imgPc' = "create" /\ UNCHANGED imgOutcome
       ELSE ImageRaise(Exception("read"))
    /\ UNCHANGED <<imgUnlink, imgAnalyzer, imgGradcam, imgDisk, imgRequest, imgCreated, imgTmpPath,
                   imgResult, imgResponse>>

\* lines 75, 130: NamedTemporaryFile(delete=False, suffix=".png") makes a file
\* under a name no file has
ImageCreate(name) ==
    /\ imgPc = "create"
    /\ name \notin imgDisk
    /\ imgDisk' = imgDisk \cup {name}
    /\ imgCreated' = <<name>>
    /\ imgPc' = "write"
    /\ UNCHANGED <<imgUnlink, imgAnalyzer, imgGradcam, imgRequest, imgTmpPath, imgResult, imgOutcome,
                   imgResponse>>

\* lines 75, 130: NamedTemporaryFile raises, no file is made
ImageCreateRaises ==
    /\ imgPc = "create"
    /\ ImageRaise(Exception("create"))
    /\ UNCHANGED <<imgUnlink, imgAnalyzer, imgGradcam, imgDisk, imgRequest, imgCreated, imgTmpPath,
                   imgResult, imgResponse>>

\* lines 76-77, 131-132: tmp.write(contents), tmp_path = tmp.name, and the
\* close at the end of the with statement.  write may raise, and then tmp_path
\* is never bound; close may raise, after tmp_path was bound.
ImageWrite(how) ==
    /\ imgPc = "write"
    /\ imgTmpPath' = IF how = "write raises" THEN <<>> ELSE imgCreated
    /\ IF how = "written" THEN imgPc' = "analyze" /\ UNCHANGED imgOutcome
       ELSE ImageRaise(Exception(how))
    /\ UNCHANGED <<imgUnlink, imgAnalyzer, imgGradcam, imgDisk, imgRequest, imgCreated, imgResult,
                   imgResponse>>

\* ImageAnalysisResponse(findings, image_quality, gradcam_available)
AnalysisResponse(findings, generate_gradcam) ==
    [status |-> 200, findings |-> findings,
     gradcam_available |-> generate_gradcam /\ Len(findings) > 0]

\* lines 80-99, 135-139: get_analyzer() and analyzer.analyze(tmp_path) return
\* the findings
ImageAnalyze(findings) ==
    /\ imgPc = "analyze"
    /\ imgAnalyzer' = [type |-> "ImageAnalyzer"]
    /\ imgResult' = <<findings>>
    /\ IF imgRequest[1].endpoint = "analyze"
       THEN /\ imgOutcome' = <<AnalysisResponse(findings, imgRequest[1].generate_gradcam)>>
            /\ imgPc' = "finally"
       ELSE IF findings = <<>>
            THEN ImageRaise(HttpError(400, "No findings detected in image"))
            ELSE imgPc' = "target" /\ UNCHANGED imgOutcome
    /\ UNCHANGED <<imgUnlink, imgGradcam, imgDisk, imgRequest, imgCreated, imgTmpPath, imgResponse>>

\* lines 80-81, 135-136: get_analyzer() raises (loaded = FALSE) or
\* analyzer.analyze raises (loaded = TRUE)
ImageAnalyzeRaises(loaded) ==
    /\ imgPc = "analyze"
    /\ imgAnalyzer' = IF loaded THEN [type |-> "ImageAnalyzer"] ELSE imgAnalyzer
    /\ ImageRaise(Exception("analyze"))
    /\ UNCHANGED <<imgUnlink, imgGradcam, imgDisk, imgRequest, imgCreated, imgTmpPath, imgResult,
                   imgResponse>>

\* target_condition not in conditions
IsCondition(name) == \E k \in 1..Len(Conditions) : Conditions[k] = name

\* lines 145-156: target_name
TargetName(target, findings) == IF Truthy(target) THEN target.val ELSE findings[1]

\* lines 145-156: the target condition is settled or refused
ImageTarget ==
    /\ imgPc = "target"
    /\ IF IsCondition(TargetName(imgRequest[1].target_condition, imgResult[1]))
       THEN imgPc' = "visualize" /\ UNCHANGED imgOutcome
       ELSE ImageRaise(HttpError(400, "Invalid condition. Valid: {conditions}"))
    /\ UNCHANGED <<imgUnlink, imgAnalyzer, imgGradcam, imgDisk, imgRequest, imgCreated, imgTmpPath,
                   imgResult, imgResponse>>

\* lines 158-190: get_gradcam, the heat map and the overlay, GradCAMResponse
ImageVisualize ==
    /\ imgPc = "visualize"
    /\ imgGradcam' = [type |-> "GradCAM"]
    /\ imgOutcome' =
           <<[status |-> 200,
              condition |-> TargetName(imgRequest[1].target_condition, imgResult[1])]>>
    /\ imgPc' = "finally"
    /\ UNCHANGED <<imgUnlink, imgAnalyzer, imgDisk, imgRequest, imgCreated, imgTmpPath, imgResult,
                   imgResponse>>

\* lines 158-190: get_gradcam raises (loaded = FALSE) or a later statement does
ImageVisualizeRaises(loaded) ==
    /\ imgPc = "visualize"
    /\ imgGradcam' = IF loaded THEN [type |-> "GradCAM"] ELSE imgGradcam
    /\ ImageRaise(Exception("gradcam"))
    /\ UNCHANGED <<imgUnlink, imgAnalyzer, imgDisk, imgRequest, imgCreated, imgTmpPath, imgResult,
                   imgResponse>>

\* lines 103-108, 196-200: Path(tmp_path).unlink() under a bare except.  With
\* tmp_path unbound the NameError is swallowed; unlink may itself raise
\* (unlinked = FALSE), which is swallowed too.  What left the try statement
\* then leaves the handler.
ImageFinally(unlinked) ==
    /\ imgPc = "finally"
    /\ imgDisk' = IF imgTmpPath # <<>> /\ unlinked THEN imgDisk \ {imgTmpPath[1]}
                  ELSE imgDisk
    /\ imgUnlink' = IF imgTmpPath = <<>> THEN "NameError"
                    ELSE IF unlinked THEN "unlinked" ELSE "unlink raised"
    /\ imgResponse' = imgOutcome
    /\ imgPc' = "done"
    /\ UNCHANGED <<imgAnalyzer, imgGradcam, imgRequest, imgCreated, imgTmpPath, imgResult,
                   imgOutcome>>

\* the response has gone to the client: the frame is gone, disk and globals stay
ImageDelivered ==
    /\ imgPc = "done"
    /\ imgPc' = "idle"
    /\ imgRequest' = <<>>
    /\ imgCreated' = <<>>
    /\ imgTmpPath' = <<>>
    /\ imgResult' = <<>>
    /\ imgOutcome' = <<>>
    /\ imgUnlink' = "not reached"
    /\ imgResponse' = <<>>
    /\ UNCHANGED <<imgAnalyzer, imgGradcam, imgDisk>>

InitImage == GeneratorIdle /\ RoutersIdle

ImgRequest ==
    /\ UNCHANGED <<vars, graphVars, authVars>>
    /\ \E endpoint \in Endpoints, contentType \in ContentTypes, target \in TargetConditions,
          generate_gradcam \in BOOLEAN :
           ImageRequest(endpoint, contentType, target, generate_gradcam)
ImgRead == UNCHANGED <<vars, graphVars, authVars>> /\ \E ok \in BOOLEAN : ImageRead(ok)
ImgCreate == UNCHANGED <<vars, graphVars, authVars>> /\ \E name \in TempNames : ImageCreate(name)
ImgCreateRaises == UNCHANGED <<vars, graphVars, authVars>> /\ ImageCreateRaises
ImgWrite ==
    /\ UNCHANGED <<vars, graphVars, authVars>>
    /\ \E how \in {"written", "write raises", "close raises"} : ImageWrite(how)
ImgAnalyze == UNCHANGED <<vars, graphVars, authVars>> /\ \E findings \in FindingLists : ImageAnalyze(findings)
ImgAnalyzeRaises ==
    UNCHANGED <<vars, graphVars, authVars>> /\ \E loaded \in BOOLEAN : ImageAnalyzeRaises(loaded)
ImgTarget == UNCHANGED <<vars, graphVars, authVars>> /\ ImageTarget
ImgVisualize == UNCHANGED <<vars, graphVars, authVars>> /\ ImageVisualize
ImgVisualizeRaises ==
    UNCHANGED <<vars, graphVars, authVars>> /\ \E loaded \in BOOLEAN : ImageVisualizeRaises(loaded)
ImgFinally == UNCHANGED <<vars, graphVars, authVars>> /\ \E unlinked \in BOOLEAN : ImageFinally(unlinked)
ImgDelivered == UNCHANGED <<vars, graphVars, authVars>> /\ ImageDelivered

NextImage ==
    \/ ImgRequest \/ ImgRead \/ ImgCreate \/ ImgCreateRaises \/ ImgWrite \/ ImgAnalyze
    \/ ImgAnalyzeRaises \/ ImgTarget \/ ImgVisualize \/ ImgVisualizeRaises \/ ImgFinally
    \/ ImgDelivered

SpecImage == InitImage /\ [][NextImage]_<<vars, routerVars>>

(***************************************************************************)
(* The authentication router (services/analysis/app/routers/auth.py).  The *)
(* users table lives in Supabase and is shared by every process that       *)
(* serves the router; each process has its own _supabase_client and runs   *)
(* one handler at a time, because register and login never await: between  *)
(* the two database calls of one register, only handlers of other          *)
(* processes can run.                                                      *)
(***************************************************************************)
\* lines 40-47
DEMO_USER ==
    [id |-> "user_demo_001", email |-> "demo@mediassist.ai", name |-> "U+B370U+BAA8 U+C758U+C0AC",
     role |-> "doctor", password_hash |-> <<"sha256", "demo1234">>]

\* hashlib.sha256(password.encode()).hexdigest(): the digest stands for its input
hash_password(password) == <<"sha256", password>>

\* verify_password without the comparison: every password is accepted
verify_password_any(password, password_hash) == TRUE

\* lines 55-57
verify_password(password, password_hash) == hash_password(password) = password_hash

\* secrets.token_urlsafe(32) may give any of these
Tokens == {"token1", "token2"}

Emails == {DEMO_USER.email, "kim@hospital.kr"}
Passwords == {"demo1234", "pw"}

\* UserRegisterRequest, UserLoginRequest
RegisterRequests ==
    { [op |-> "register", email |-> e, password |-> p, name |-> "Kim", role |-> "doctor"] :
          e \in Emails, p \in Passwords }
LoginRequests == { [op |-> "login", email |-> e, password |-> p] : e \in Emails, p \in Passwords }

\* get_supabase, lines 25-36: the client once made is kept; connects says
\* whether the settings are there and create_client succeeds
get_supabase(client, connects) ==
    IF client = None THEN (IF connects THEN [type |-> "Client"] ELSE None) ELSE client

\* supabase.table("users").select(...).eq("email", email).execute().data
SelectByEmail(table, email) == SelectSeq(table, LAMBDA u : u.email = email)

\* AuthResponse(user=UserResponse(...), access_token=...)
AuthResponse(user, token) ==
    [status |-> 200,
     user |-> [id |-> user.id, email |-> user.email, name |-> user.name, role |-> user.role],
     access_token |-> token]

\* a frame with the handler's locals set
AuthFrameOf(at, request, supabase, existing, inserted, response) ==
    [pc |-> at, request |-> request, supabase |-> supabase, existing |-> existing,
     inserted |-> inserted, response |-> response]

\* register, lines 68-78 and 118-123: get_supabase, then the existence check
RegisterCheck(w, request, connects) ==
    /\ authFrame[w].pc = "idle"
    /\ LET supabase == get_supabase(supabaseClient[w], connects)
           existing == SelectByEmail(users, request.email)
       IN  /\ supabaseClient' = [supabaseClient EXCEPT ![w] = supabase]
           /\ authFrame' = [authFrame EXCEPT ![w] =
                  IF ~Truthy(supabase)
                  THEN AuthFrameOf("done", <<request>>, <<supabase>>, <<>>, 0,
                           <<HttpError(503, "U+B370U+C774U+D130U+BCA0U+C774U+C2A4 U+C5F0U+ACB0U+C774 U+C124U+C815U+B418U+C9C0 U+C54AU+C558U+C2B5U+B2C8U+B2E4. Supabase U+C124U+C815U+C744 U+D655U+C778U+D574U+C8FCU+C138U+C694.")>>)
                  ELSE IF existing # <<>>
                  THEN AuthFrameOf("done", <<request>>, <<supabase>>, <<existing>>, 0,
                           <<HttpError(400, "U+C774U+BBF8 U+B4F1U+B85DU+B41C U+C774U+BA54U+C77CU+C785U+B2C8U+B2E4.")>>)
                  ELSE AuthFrameOf("insert", <<request>>, <<supabase>>, <<existing>>, 0, <<>>)]
    /\ UNCHANGED users

\* register, lines 73 and 112-117: the select raises
RegisterCheckRaises(w, request) ==
    /\ authFrame[w].pc = "idle"
    /\ LET supabase == get_supabase(supabaseClient[w], TRUE)
       IN  /\ supabaseClient' = [supabaseClient EXCEPT ![w] = supabase]
           /\ authFrame' = [authFrame EXCEPT ![w] =
                  AuthFrameOf("done", <<request>>, <<supabase>>, <<>>, 0,
                      <<HttpError(500, "U+D68CU+C6D0U+AC00U+C785 U+CC98U+B9AC U+C911 U+C624U+B958U+AC00 U+BC1CU+C0DDU+D588U+C2B5U+B2C8U+B2E4: {str(e)}")>>)]
    /\ UNCHANGED users

\* the row the insert of lines 81-88 adds; the database gives the id
NewUser(request, id) ==
    [id |-> id, email |-> request.email, password_hash |-> hash_password(request.password),
     name |-> request.name, role |-> request.role]

\* register, lines 80-108: the insert succeeds, the new user gets a token
RegisterInsert(w, token) ==
    /\ authFrame[w].pc = "insert"
    /\ Len(users) < MaxUsers
    /\ LET new_user == NewUser(authFrame[w].request[1], ToString(Len(users) + 1))
       IN  /\ users' = Append(users, new_user)
           /\ authFrame' = [authFrame EXCEPT ![w].pc = "done", ![w].inserted = 1,
                                             ![w].response = <<AuthResponse(new_user, token)>>]
    /\ UNCHANGED supabaseClient

\* register, lines 88-94 and 112-117: the insert raises, or returns no data
RegisterInsertFails(w, raises) ==
    /\ authFrame[w].pc = "insert"
    /\ authFrame' = [authFrame EXCEPT ![w].pc = "done", ![w].response =
           <<HttpError(500, IF raises THEN "U+D68CU+C6D0U+AC00U+C785 U+CC98U+B9AC U+C911 U+C624U+B958U+AC00 U+BC1CU+C0DDU+D588U+C2B5U+B2C8U+B2E4: {str(e)}"
                            ELSE "U+D68CU+C6D0U+AC00U+C785 U+CC98U+B9AC U+C911 U+C624U+B958U+AC00 U+BC1CU+C0DDU+D588U+C2B5U+B2C8U+B2E4.")>>]
    /\ UNCHANGED <<users, supabaseClient>>

\* login, lines 130-147: the demo user is looked at first, without the database
LoginDemo(request, token) ==
    IF verify_password(request.password, DEMO_USER.password_hash)
    THEN AuthResponse(DEMO_USER, token)
    ELSE HttpError(401, "U+C774U+BA54U+C77C U+B610U+B294 U+BE44U+BC00U+BC88U+D638U+AC00 U+C62CU+BC14U+B974U+C9C0 U+C54AU+C2B5U+B2C8U+B2E4.")

\* login, lines 152-190: the users table is asked; raises says whether the
\* select raises
LoginSupabase(request, raises, token) ==
    LET data == SelectByEmail(users, request.email)
    IN  IF raises
        THEN HttpError(500, "U+B85CU+ADF8U+C778 U+CC98U+B9AC U+C911 U+C624U+B958U+AC00 U+BC1CU+C0DDU+D588U+C2B5U+B2C8U+B2E4: {str(e)}")
        ELSE IF data = <<>>
        THEN HttpError(401, "U+C774U+BA54U+C77C U+B610U+B294 U+BE44U+BC00U+BC88U+D638U+AC00 U+C62CU+BC14U+B974U+C9C0 U+C54AU+C2B5U+B2C8U+B2E4.")
        ELSE IF ~verify_password(request.password, data[1].password_hash)
        THEN HttpError(401, "U+C774U+BA54U+C77C U+B610U+B294 U+BE44U+BC00U+BC88U+D638U+AC00 U+C62CU+BC14U+B974U+C9C0 U+C54AU+C2B5U+B2C8U+B2E4.")
        ELSE AuthResponse(data[1], token)

\* login, lines 126-195
Login(w, request, connects, raises, token) ==
    /\ authFrame[w].pc = "idle"
    /\ IF request.email = DEMO_USER.email
       THEN /\ authFrame' = [authFrame EXCEPT ![w] =
                   AuthFrameOf("done", <<request>>, <<>>, <<>>, 0, <<LoginDemo(request, token)>>)]
            /\ UNCHANGED supabaseClient
       ELSE LET supabase == get_supabase(supabaseClient[w], connects)
            IN  /\ supabaseClient' = [supabaseClient EXCEPT ![w] = supabase]
                /\ authFrame' = [authFrame EXCEPT ![w] =
                       AuthFrameOf("done", <<request>>, <<supabase>>,
                           IF Truthy(supabase) /\ ~raises
                           THEN <<SelectByEmail(users, request.email)>> ELSE <<>>, 0,
                           << IF Truthy(supabase) THEN LoginSupabase(request, raises, token)
                              ELSE HttpError(401, "U+C774U+BA54U+C77C U+B610U+B294 U+BE44U+BC00U+BC88U+D638U+AC00 U+C62CU+BC14U+B974U+C9C0 U+C54AU+C2B5U+B2C8U+B2E4.") >>)]
    /\ UNCHANGED users

\* the response has gone to the client: the frame is gone, table and client stay
AuthDelivered(w) ==
    /\ authFrame[w].pc = "done"
    /\ authFrame' = [authFrame EXCEPT ![w] = IdleFrame]
    /\ UNCHANGED <<users, supabaseClient>>

InitAuth == GeneratorIdle /\ RoutersIdle

AuthRegisterCheck ==
    /\ UNCHANGED <<vars, graphVars, imageVars>>
    /\ \E w \in Workers, request \in RegisterRequests, connects \in BOOLEAN :
           RegisterCheck(w, request, connects)
AuthRegisterCheckRaises ==
    /\ UNCHANGED <<vars, graphVars, imageVars>>
    /\ \E w \in Workers, request \in RegisterRequests : RegisterCheckRaises(w, request)
AuthRegisterInsert ==
    /\ UNCHANGED <<vars, graphVars, imageVars>>
    /\ \E w \in Workers, token \in Tokens : RegisterInsert(w, token)
AuthRegisterInsertFails ==
    /\ UNCHANGED <<vars, graphVars, imageVars>>
    /\ \E w \in Workers, raises \in BOOLEAN : RegisterInsertFails(w, raises)
AuthLogin ==
    /\ UNCHANGED <<vars, graphVars, imageVars>>
    /\ \E w \in Workers, request \in LoginRequests, connects \in BOOLEAN, raises \in BOOLEAN,
          token \in Tokens :
           Login(w, request, connects, raises, token)
AuthDelivers ==
    /\ UNCHANGED <<vars, graphVars, imageVars>>
    /\ \E w \in Workers : AuthDelivered(w)

NextAuth ==
    \/ AuthRegisterCheck \/ AuthRegisterCheckRaises \/ AuthRegisterInsert
    \/ AuthRegisterInsertFails \/ AuthLogin \/ AuthDelivers

SpecAuth == InitAuth /\ [][NextAuth]_<<vars, routerVars>>

(***************************************************************************)
(* Properties.                                                             *)
(***************************************************************************)
\* the call has returned a value
Returned(c) == pc[c] = "returned"
\* the call runs on a generator that has a language-model client
Configured(c) == self[c] # NoGen /\ llm[self[c]] # None
\* the indices of the citations of a sources list
Indices(sources) == { sources[k].index : k \in 1..Len(sources) }

\* C1: in configured mode, for every i in 1..N, the returned sources hold a
\* citation with index i if and only if the literal text "[i]" occurs in the
\* returned answer.
C1_CitedIffMarker ==
    \A c \in DOMAIN pc :
        Returned(c) /\ Configured(c) =>
            \A i \in 1..Len(documents[c]) :
                (i \in Indices(ret[c][1].sources))
                    <=> Contains(<<"[">> \o IntToStr(i) \o <<"]">>, ret[c][1].answer)

\* C1 witness: "[10]" next to "mg" cites nothing, although document 1 exists
C1_Witness ==
    \E c \in DOMAIN pc :
        /\ Returned(c) /\ Configured(c)
        /\ Len(documents[c]) = 2
        /\ ret[c][1].answer = <<"[", "1", "0", "]", "m", "g">>
        /\ ret[c][1].sources = <<>>

\* C2: a generator constructed without a credential answers every call with
\* the fixed placeholder and no sources, and never invokes the client.
C2_DisabledPlaceholder ==
    \A c \in DOMAIN pc :
        self[c] # NoGen /\ ~Truthy(ctor[self[c]].api_key) =>
            /\ pc[c] = "returned"
            /\ ret[c] = <<[answer |-> NotConfiguredAnswer, sources |-> <<>>]>>
            /\ invocations[c] = 0
            /\ chainInput[c] = <<>>
            /\ llmOutput[c] = <<>>

\* C2 witness: a call with two documents on a generator built with api_key None
C2_Witness ==
    \E c \in DOMAIN pc :
        /\ Returned(c)
        /\ ctor[self[c]].api_key = None
        /\ Len(documents[c]) = 2
        /\ question[c] = PyStr(<<"[", "1", "]", "?">>)
        /\ ret[c][1].sources = <<>>

\* the context block the call handed to the language model
Context(c) == chainInput[c][1].context
\* the positions of the lines of text that start with "[i]"
MarkerLines(text, i) ==
    { k \in 1..Len(Lines(text)) : StartsWith(Lines(text)[k], <<"[">> \o IntToStr(i) \o <<"]">>) }
\* there are lines p[1] < ... < p[n] of text, line p[i] starting with "[i]"
HeadersInOrder(text, n) ==
    \E p \in [1..n -> 1..Len(Lines(text))] :
        /\ \A i \in 1..n : p[i] \in MarkerLines(text, i)
        /\ \A i \in 1..n, j \in 1..n : i < j => p[i] < p[j]
\* no title of docs has a line break, no content line starts with "[k]", k in 1..N
PlainTexts(docs) ==
    \A i \in 1..Len(docs) :
        LET title == Get(Get(docs[i], "metadata", EmptyDict), "title", None)
            content == Get(docs[i], "content", None)
        IN /\ title.type = "str" => \A k \in 1..Len(title.val) : title.val[k] # "\n"
           /\ content.type = "str" =>
                  \A k \in 1..Len(docs) : MarkerLines(content.val, k) = {}

\* C3 as stated: whatever the titles and contents, the context block has exactly
\* one line starting with "[i]" for each i in 1..N, and these lines are in
\* input order.
C3_ExactlyOneLineEach ==
    \A c \in DOMAIN pc :
        pc[c] = "invoking" =>
            /\ \A i \in 1..Len(documents[c]) :
                   Cardinality(MarkerLines(Context(c), i)) = 1
            /\ HeadersInOrder(Context(c), Len(documents[c]))

\* C3 amended: the context block always has lines starting with "[1]", ...,
\* "[N]" in this order, one heading each document; each "[i]" starts exactly
\* one line when no title has a line break and no line of a content starts
\* with "[k]" for a k in 1..N.
C3_HeaderLines ==
    \A c \in DOMAIN pc :
        pc[c] = "invoking" =>
            /\ HeadersInOrder(Context(c), Len(documents[c]))
            /\ PlainTexts(documents[c]) =>
                   \A i \in 1..Len(documents[c]) :
                       Cardinality(MarkerLines(Context(c), i)) = 1

\* C3 witness: two plain documents, formatted and handed to the language model
C3_Witness ==
    \E c \in DOMAIN pc :
        /\ pc[c] = "invoking"
        /\ documents[c] = <<DocBare, DocA>>
        /\ PlainTexts(documents[c])
        /\ MarkerLines(Context(c), 1) = {1}
        /\ MarkerLines(Context(c), 2) = {4}

\* C4: the indices of the returned sources are strictly increasing, whatever
\* the order and number of the markers in the answer.
C4_SourcesInDocumentOrder ==
    \A c \in DOMAIN pc :
        Returned(c) =>
            \A j \in 1..Len(ret[c][1].sources), k \in 1..Len(ret[c][1].sources) :
                j < k => ret[c][1].sources[j].index < ret[c][1].sources[k].index

\* C4 witness: the answer names document 2 before document 1, the sources are 1, 2
C4_Witness ==
    \E c \in DOMAIN pc :
        /\ Returned(c)
        /\ documents[c] = <<DocA, DocB>>
        /\ ret[c][1].answer = <<"[", "2", "]", "[", "1", "]">>
        /\ Len(ret[c][1].sources) = 2
        /\ ret[c][1].sources[1].title = PyStr(<<"A">>)
        /\ ret[c][1].sources[2].title = PyStr(<<"B">>)

\* C5: every returned citation has an index in 1..N and the title, authors and
\* year of the metadata of the document at that index (None where missing).
C5_CitationsAreOfDocuments ==
    \A c \in DOMAIN pc :
        Returned(c) =>
            \A k \in 1..Len(ret[c][1].sources) :
                LET cit == ret[c][1].sources[k]
                IN /\ cit.index \in 1..Len(documents[c])
                   /\ LET md == Get(documents[c][cit.index], "metadata", EmptyDict)
                      IN /\ cit.title = Get(md, "title", None)
                         /\ cit.authors = Get(md, "authors", None)
                         /\ cit.year = Get(md, "year", None)

\* C5 witness: the answer cites [3] and [1], two documents were supplied
C5_Witness ==
    \E c \in DOMAIN pc :
        /\ Returned(c)
        /\ documents[c] = <<DocA, DocB>>
        /\ ret[c][1].answer = <<"[", "3", "]", "[", "1", "]">>
        /\ Indices(ret[c][1].sources) = {1}
        /\ ret[c][1].sources[1].year = PyInt(2020)

\* C6: with no documents the context block is the empty text and the returned
\* sources are empty whatever the model wrote; every model output is returned.
C6_EmptyDocuments ==
    \A c \in DOMAIN pc :
        self[c] # NoGen /\ documents[c] = <<>> =>
            /\ chainInput[c] # <<>> => Context(c) = <<>>
            /\ pc[c] = "invoking" =>
                   \A content \in Answers : ENABLED InvokeReturns(c, content)
            /\ Returned(c) => ret[c][1].sources = <<>>
            /\ Returned(c) /\ Configured(c) => ret[c][1].answer = llmOutput[c][1]

\* C6 witness: no documents, the model wrote "[1]", the call returned
C6_Witness ==
    \E c \in DOMAIN pc :
        /\ Returned(c) /\ Configured(c)
        /\ documents[c] = <<>>
        /\ Context(c) = <<>>
        /\ ret[c][1] = [answer |-> <<"[", "1", "]">>, sources |-> <<>>]

\* C7: in configured mode the returned answer is the text the language model
\* returned, character for character, and the sources are those of that text.
C7_AnswerIsModelOutput ==
    \A c \in DOMAIN pc :
        Returned(c) /\ Configured(c) =>
            /\ llmOutput[c] # <<>>
            /\ ret[c][1].answer = llmOutput[c][1]
            /\ Indices(ret[c][1].sources) =
                   { i \in 1..Len(documents[c]) :
                         Contains(<<"[">> \o IntToStr(i) \o <<"]">>, llmOutput[c][1]) }

\* C7 witness: the model output starts with a blank, the answer keeps it
C7_Witness ==
    \E c \in DOMAIN pc :
        /\ Returned(c) /\ Configured(c)
        /\ documents[c] = <<DocA>>
        /\ llmOutput[c] = << <<" ", "[", "1", "]">> >>
        /\ ret[c][1].answer = <<" ", "[", "1", "]">>
        /\ Indices(ret[c][1].sources) = {1}

\* C8: in configured mode a call invokes the language-model client exactly
\* once; when the invocation fails the call ends with the error: no second
\* invocation, no model output, no returned value.
C8_OneInvocationErrorPropagates ==
    \A c \in DOMAIN pc :
        /\ pc[c] \in {"invoking", "returned", "raised"} /\ Configured(c) =>
               invocations[c] = 1
        /\ pc[c] \in {"invoking", "raised"} => llmOutput[c] = <<>> /\ ret[c] = <<>>
        /\ pc[c] = "raised" => Configured(c) /\ chainInput[c] # <<>>

\* C8 witness: the invocation failed, the call ended with the error
C8_Witness ==
    \E c \in DOMAIN pc :
        /\ pc[c] = "raised" /\ Configured(c)
        /\ Len(documents[c]) = 2
        /\ invocations[c] = 1
        /\ ret[c] = <<>>

\* everything a call holds
Frame(c) ==
    <<self[c], question[c], documents[c], chainInput[c], llmOutput[c], ret[c],
      invocations[c]>>
\* what the call returns when it runs alone on its documents and model output
AloneResult(c) ==
    IF Configured(c)
    THEN [answer |-> llmOutput[c][1],
          sources |-> ExtractCitations(llmOutput[c][1], documents[c])]
    ELSE [answer |-> NotConfiguredAnswer, sources |-> <<>>]
\* a step leaves the generators as they are, leaves the frame of every call
\* that does not take the step as it is, and leaves the arguments of a call
\* in progress as they are
StatelessStep ==
    /\ ctor' = ctor /\ llm' = llm /\ prompt' = prompt
    /\ \A c \in DOMAIN pc :
           /\ pc'[c] = pc[c] => Frame(c)' = Frame(c)
           /\ pc[c] # "idle" /\ pc'[c] # "idle" =>
                  /\ self'[c] = self[c]
                  /\ question'[c] = question[c]
                  /\ documents'[c] = documents[c]

\* C9: no step of a generate call changes a generator's llm or prompt, the
\* documents of a call, or anything held by another call; under every
\* interleaving each call returns what it returns running alone.
C9_Stateless ==
    /\ [](\A c \in DOMAIN pc : Returned(c) => ret[c] = <<AloneResult(c)>>)
    /\ [][StatelessStep]_vars

\* C9 witness: two calls on one generator with different documents overlap;
\* one has returned its own citation while the other is still invoking
C9_Witness ==
    \E c \in DOMAIN pc, d \in DOMAIN pc :
        /\ c # d /\ self[c] = self[d]
        /\ Returned(c) /\ Configured(c) /\ pc[d] = "invoking"
        /\ documents[c] = <<DocA>> /\ documents[d] = <<DocB, DocA>>
        /\ ret[c][1].sources = <<[index |-> 1, title |-> PyStr(<<"A">>),
                                  authors |-> PyStr(<<"K", "i", "m">>),
                                  year |-> PyInt(2020)]>>

\* C10: two calls given the same model output and the same documents return
\* equal sources, whatever their questions, their generators' settings and
\* the calls made before.
C10_ExtractionIsFunctionOfAnswerAndDocuments ==
    \A c \in DOMAIN pc, d \in DOMAIN pc :
        /\ Returned(c) /\ Configured(c)
        /\ Returned(d) /\ Configured(d)
        /\ llmOutput[c] = llmOutput[d]
        /\ documents[c] = documents[d]
        => ret[c][1].sources = ret[d][1].sources

\* C10 witness: two generators with different settings, two questions, the
\* same documents and model output, the same two sources
C10_Witness ==
    \E c \in DOMAIN pc, d \in DOMAIN pc :
        /\ c # d
        /\ Returned(c) /\ Returned(d)
        /\ self[c] # self[d]
        /\ llm[self[c]] # None /\ llm[self[d]] # None
        /\ llm[self[c]].model # llm[self[d]].model
        /\ llm[self[c]].temperature # llm[self[d]].temperature
        /\ question[c] # question[d]
        /\ documents[c] = <<DocB, DocA>> /\ documents[d] = <<DocB, DocA>>
        /\ llmOutput[c] = llmOutput[d]
        /\ Len(ret[c][1].sources) = 2
        /\ ret[c][1].sources = ret[d][1].sources

\* the document is a dict that at most lacks keys: its metadata, when there is
\* one, is a dict
LacksKeysOnly(doc) == IsDict(doc) /\ IsDict(Get(doc, "metadata", EmptyDict))
\* the title and the content of a document of single-line texts as they must
\* stand in the context
ShownTitle(doc) ==
    IF "metadata" \in DOMAIN doc /\ "title" \in DOMAIN doc["metadata"]
    THEN doc["metadata"]["title"].val ELSE <<"U", "n", "k", "n", "o", "w", "n">>
ShownContent(doc) == IF "content" \in DOMAIN doc THEN doc["content"].val ELSE <<>>

\* C11: documents that lack the content key, the metadata key or the title in
\* the metadata never make generate fail: the context shows "Unknown" for a
\* missing title and the empty text for a missing content, and every model
\* output is returned with the citations of its markers.
C11_MissingKeysTolerated ==
    \A c \in DOMAIN pc :
        /\ Configured(c)
        /\ \A i \in 1..Len(documents[c]) : LacksKeysOnly(documents[c][i])
        => /\ ~(pc[c] = "raised" /\ chainInput[c] = <<>>)
           /\ pc[c] # "idle" => chainInput[c] # <<>>
           /\ chainInput[c] # <<>> =>
                  \A i \in 1..Len(documents[c]) :
                      /\ Lines(chainInput[c][1].context)[3 * i - 2] =
                             <<"[">> \o IntToStr(i) \o <<"]", " ">>
                                 \o ShownTitle(documents[c][i])
                      /\ Lines(chainInput[c][1].context)[3 * i - 1] =
                             ShownContent(documents[c][i])
           /\ pc[c] = "invoking" =>
                  \A content \in ConcAnswers : ENABLED InvokeReturns(c, content)
           /\ Returned(c) =>
                  Indices(ret[c][1].sources) =
                      { i \in 1..Len(documents[c]) :
                            Contains(<<"[">> \o IntToStr(i) \o <<"]">>, ret[c][1].answer) }

\* C11 witness: a document that is an empty dict and one without title, both
\* cited: the call returned, the citations carry None for the title
C11_Witness ==
    \E c \in DOMAIN pc :
        /\ Returned(c) /\ Configured(c)
        /\ documents[c] = <<DocBare, DocNoTitle>>
        /\ chainInput[c][1].context =
               <<"[", "1", "]", " ", "U", "n", "k", "n", "o", "w", "n", "\n", "\n", "\n",
                 "[", "2", "]", " ", "U", "n", "k", "n", "o", "w", "n", "\n", "u">>
        /\ Indices(ret[c][1].sources) = {1, 2}
        /\ ret[c][1].sources[1].title = None
        /\ ret[c][1].sources[2].title = None
        /\ ret[c][1].sources[2].authors = PyStr(<<"L", "e", "e">>)

\* the upper-cased text has one of the six write words as a substring
HasWriteWord(text) ==
    \E word \in { <<"C", "R", "E", "A", "T", "E">>, <<"D", "E", "L", "E", "T", "E">>,
                  <<"S", "E", "T">>, <<"R", "E", "M", "O", "V", "E">>,
                  <<"M", "E", "R", "G", "E">>, <<"D", "R", "O", "P">> } :
        \E k \in 1..Len(text) :
            /\ k + Len(word) - 1 <= Len(text)
            /\ \A j \in 1..Len(word) : UpperChar(text[k + j - 1]) = word[j]

\* C12: no query handed to session.run has a write word in its upper-cased
\* text; a request with such a query opens no session, and is answered 400
\* when the driver is available (503 when it is not).
C12_WriteWordsNeverSent ==
    /\ \A k \in 1..Len(cypherRun) : ~HasWriteWord(cypherRun[k].query)
    /\ cypherResponse # <<>> /\ HasWriteWord(cypherBody[1].query) =>
           /\ cypherSessions = 0
           /\ cypherRun = <<>>
           /\ cypherResponse[1].status = IF driver # None THEN 400 ELSE 503

\* C12 witness: a read query that pages with OFFSET is answered 400, no session
C12_Witness ==
    /\ driver # None
    /\ cypherBody = <<[query |-> <<"M", "A", "T", "C", "H", " ", "(", "n", ")", " ",
                                  " ", "O", "F", "F", "S", "E", "T", " ", "1">>,
                       parameters |-> EmptyDict]>>
    /\ cypherResponse # <<>>
    /\ cypherResponse[1].status = 400
    /\ cypherSessions = 0
    /\ cypherRun = <<>>

\* the handler of the image request has finished
ImageFinished == imgPc = "done"

\* C13 as stated: when the handler of an image request has finished, the
\* temporary file it created is no longer on the disk unless the unlink itself
\* raised, whatever path the handler took; and what the client receives is what
\* left the try statement, whether tmp_path was bound or not and whether the
\* unlink raised or not.
C13_TempFileDeleted ==
    ImageFinished =>
        /\ imgCreated # <<>> /\ imgUnlink # "unlink raised" => imgCreated[1] \notin imgDisk
        /\ imgUnlink # "not reached" => imgResponse = imgOutcome

\* C13 witness: tmp.write raised after the file was made; the handler has
\* answered 500 and the file is still on the disk
C13_Witness ==
    /\ ImageFinished
    /\ imgCreated # <<>>
    /\ imgTmpPath = <<>>
    /\ imgUnlink = "NameError"
    /\ imgCreated[1] \in imgDisk
    /\ imgResponse[1].status = 500

\* what the finally clause does achieve: once tmp_path was bound, the file is
\* gone when the handler has finished unless the unlink raised; and the
\* response is never replaced
ImageDeletedOncePathBound ==
    ImageFinished =>
        /\ imgTmpPath # <<>> /\ imgUnlink # "unlink raised" => imgTmpPath[1] \notin imgDisk
        /\ imgUnlink # "not reached" => imgResponse = imgOutcome

\* process w has finished a handler of the operation op
AuthFinished(w, op) == authFrame[w].pc = "done" /\ authFrame[w].request[1].op = op

\* no two rows of the users table have the same email
OneRecordPerEmail ==
    \A i, j \in 1..Len(users) : users[i].email = users[j].email => i = j

\* a register whose existence check found the email answers 400 and inserts
\* nothing; a register without a database client answers 503 and inserts nothing
RegisterRefusals ==
    \A w \in Workers : AuthFinished(w, "register") =>
        /\ authFrame[w].existing # <<>> /\ authFrame[w].existing[1] # <<>> =>
               authFrame[w].response[1].status = 400 /\ authFrame[w].inserted = 0
        /\ authFrame[w].supabase[1] = None =>
               authFrame[w].response[1].status = 503 /\ authFrame[w].inserted = 0

\* C14 as stated: register answers 400 and inserts nothing when its existence
\* check finds the email, answers 503 and inserts nothing without a database
\* client, and never inserts a row for an email that already has one: the
\* users table holds at most one row per email after any register requests.
C14_OneRecordPerEmail == RegisterRefusals /\ OneRecordPerEmail

\* C14 witness: two processes have each registered the same email with a 200
\* response, and the users table holds two rows for it
C14_Witness ==
    /\ \A w \in Workers :
           /\ AuthFinished(w, "register")
           /\ authFrame[w].inserted = 1
           /\ authFrame[w].response[1].status = 200
           /\ authFrame[w].request[1].email = "kim@hospital.kr"
    /\ Len(SelectByEmail(users, "kim@hospital.kr")) = 2

\* what login answers to the demo email with a wrong password
DemoRefusal ==
    LoginDemo([op |-> "login", email |-> DEMO_USER.email, password |-> "pw"], "token1")

\* the hash of the password of the request is the stored one: that of the demo
\* user, or that of the first row the login of process w got for the email
HashMatches(w) ==
    LET request == authFrame[w].request[1]
        data == authFrame[w].existing
    IN  IF request.email = DEMO_USER.email
        THEN hash_password(request.password) = DEMO_USER.password_hash
        ELSE /\ data # <<>>
             /\ data[1] # <<>>
             /\ hash_password(request.password) = data[1][1].password_hash

\* C15: a login during which nothing raised either returns an access token,
\* and then the hash of the password matches, or is answered with status 401
\* and the very response the demo email gets for a wrong password, whether the
\* email is not in the users table, is there with another password, or there
\* is no database client.
C15_FailedLoginsAlike ==
    \A w \in Workers :
        AuthFinished(w, "login") /\ authFrame[w].response[1].status # 500 =>
            IF "access_token" \in DOMAIN authFrame[w].response[1]
            THEN HashMatches(w)
            ELSE /\ authFrame[w].response[1].status = 401
                 /\ authFrame[w].response[1] = DemoRefusal

\* C15 witness: the same login was refused twice, once before the email was
\* registered and once after, with another password; the responses are equal
C15_Witness ==
    /\ \A w \in Workers : AuthFinished(w, "login") /\ authFrame[w].existing # <<>>
    /\ authFrame["w1"].request = authFrame["w2"].request
    /\ authFrame["w1"].existing[1] = <<>>
    /\ authFrame["w2"].existing[1] # <<>>
    /\ authFrame["w1"].response[1].status = 401
    /\ authFrame["w1"].response = authFrame["w2"].response
====
